---- MODULE Spec2Model ----
(***************************************************************************)
(* Model of scrapeandapply.py: the listing scraper, the seen-links ledger, *)
(* the candidate selector, the Easy Apply state machine and the main loop. *)
(* Strings are sequences of tokens: "O" stands for the site origin         *)
(* "https://www.dice.com", " " for a blank and "\n" for a line feed.       *)
(***************************************************************************)
EXTENDS Integers, Sequences, FiniteSets, TLC

\* ---------------------------------------------------------------- bounds
MaxPages   == 2      \* listing pages the remote site serves
MaxAnchors == 2      \* job-detail anchors in the whole listing
MaxRuns    == 2      \* invocations of main() on the same ledger file
MaxButtons == 4      \* button.btn-primary elements inside apply-button-wc

\* ------------------------------------------------------ program constants
StepLimit     == 6   \* for _ in range(6)
FallbackLimit == 3   \* range(min(3, fallback.count()))

\* ------------------------------------------------------------- the remote
Origin == <<"O">>
HrefRelA == <<"/", "a">>              \* path-relative href
HrefAbsA == <<"O", "/", "a">>         \* the same posting, absolute
HrefPadB == <<" ", "O", "/", "b">>    \* absolute href with a leading blank
HrefNone == <<>>                      \* missing or empty href
Hrefs == {HrefRelA, HrefAbsA, HrefPadB, HrefNone}

NumTok == <<"1", "2", "3", "4">>
IntOf  == [t \in {"0", "1", "2", "3", "4"} |->
             CASE t = "0" -> 0 [] t = "1" -> 1 [] t = "2" -> 2
               [] t = "3" -> 3 [] t = "4" -> 4]
NoLabel  == <<>>                      \* page without the pagination section
BadLabel == <<"Page", "1">>           \* label with a single number
FullLabel == <<"Page", "1", "of", NumTok[MaxPages]>>   \* "Page 1 of N"
Labels == {NoLabel, BadLabel, FullLabel}

RECURSIVE SeqsUpTo(_, _)
SeqsUpTo(S, n) ==
  IF n = 0 THEN {<<>>}
  ELSE LET shorter == SeqsUpTo(S, n - 1)
       IN  shorter \cup {Append(s, x) : s \in {t \in shorter : Len(t) = n - 1}, x \in S}

RECURSIVE SumLen(_)
SumLen(pages) == IF pages = <<>> THEN 0 ELSE Len(Head(pages)) + SumLen(Tail(pages))

Listings == {l \in [1..MaxPages -> SeqsUpTo(Hrefs, MaxAnchors)] : SumLen(l) <= MaxAnchors}

\* the inputs of scrape_job_listings taken alone
HrefProtoA == <<"/", "/", "H", "/", "a">>   \* the posting /a, protocol-relative ("H": the site's host)
ScrapeHrefs == Hrefs \cup {HrefProtoA}
ScrapeListings ==
  {l \in [1..MaxPages -> SeqsUpTo(ScrapeHrefs, MaxAnchors)] : SumLen(l) <= MaxAnchors}
WordLabel  == <<"Page", "x", "of", "2">>         \* a word where a number is expected
LongLabel  == <<"Page", "1", "2", "of", "2">>    \* three numbers
ZeroLabel  == <<"Page", "1", "of", "0">>         \* an empty result
ScrapeLabels == Labels \cup {WordLabel, LongLabel, ZeroLabel}

\* ------------------------------------------------------------ the ledger
Whitespace == {" ", "\n"}

RECURSIVE LStrip(_)
LStrip(s) == IF s # <<>> /\ Head(s) \in Whitespace THEN LStrip(Tail(s)) ELSE s

RECURSIVE RStrip(_)
RStrip(s) == IF s # <<>> /\ s[Len(s)] \in Whitespace THEN RStrip(SubSeq(s, 1, Len(s) - 1)) ELSE s

\* str.strip()
Strip(s) == RStrip(LStrip(s))

\* the lines a text file iterates over, each with its terminating "\n"
RECURSIVE FileLines(_, _)
FileLines(f, cur) ==
  IF f = <<>> THEN (IF cur = <<>> THEN <<>> ELSE <<cur>>)
  ELSE IF Head(f) = "\n" THEN <<Append(cur, "\n")>> \o FileLines(Tail(f), <<>>)
  ELSE FileLines(Tail(f), Append(cur, Head(f)))

Range(s) == {s[n] : n \in DOMAIN s}

\* load_seen_links: a missing file and an empty file both give set()
load_seen_links(f) == {Strip(l) : l \in Range(FileLines(f, <<>>))} \ {<<>>}

\* variant: the write stays in a buffer that never reaches the file
append_unflushed(f, link) == f

\* append_seen_link: open(path, "a"); f.write(link + "\n")
append_seen_link(f, link) == f \o link \o <<"\n">>

\* ----------------------------------------------------------- the scraper
\* get_total_pages on the token sequence of the aria-label ("" when the first fetch failed)
get_total_pages(lbl) ==
  IF "Page" \notin Range(lbl) THEN 1
  ELSE LET nums == SelectSeq(lbl, LAMBDA t : t \notin {"Page", "of"})
       IN  IF Len(nums) = 2 /\ \A n \in 1..2 : nums[n] \in DOMAIN IntOf
           THEN IntOf[nums[2]] ELSE 1

\* href normalisation of one anchor
Normalise(href) == IF href # <<>> /\ Head(href) = "/" THEN Origin \o href ELSE href

\* the links one parsed page adds to jobs (anchors without href are skipped)
RECURSIVE PageJobs(_)
PageJobs(anchors) ==
  IF anchors = <<>> THEN <<>>
  ELSE IF Head(anchors) = <<>> THEN PageJobs(Tail(anchors))
  ELSE <<Normalise(Head(anchors))>> \o PageJobs(Tail(anchors))

RECURSIVE DedupeFrom(_, _)
DedupeFrom(js, seen) ==
  IF js = <<>> THEN <<>>
  ELSE IF Head(js) \in seen THEN DedupeFrom(Tail(js), seen)
  ELSE <<Head(js)>> \o DedupeFrom(Tail(js), seen \cup {Head(js)})

\* variant: the list is returned as scraped
DedupeNone(js) == js

\* the de-duplication loop at the end of scrape_job_listings
Dedupe(js) == DedupeFrom(js, {})

\* variant: the ledger is not subtracted
SelectNewUnfiltered(links, seen) == links

\* new_links = [lnk for lnk in links if lnk not in seen_links]
SelectNew(links, seen) == SelectSeq(links, LAMBDA l : l \notin seen)

\* ------------------------------------------------- the posting page's host
\* a button.btn-primary inside apply-button-wc: its text and its visibility
Buttons == [kind : {"easy", "apply", "other"}, vis : BOOLEAN]
Hosts == SeqsUpTo(Buttons, MaxButtons)

Min(a, b) == IF a < b THEN a ELSE b

\* host.locator("button.btn-primary", has_text="Easy apply")
EasyOf(btns) == SelectSeq(btns, LAMBDA b : b.kind = "easy")

\* has_easy_apply once the host element is present
HasEasyApply(btns) ==
  \/ Len(EasyOf(btns)) > 0 /\ EasyOf(btns)[1].vis
  \/ \E n \in 1..Min(FallbackLimit, Len(btns)) : btns[n].kind \in {"easy", "apply"}

\* the elements easy_btn resolves to at line 196
ClickTargets(btns) == IF Len(EasyOf(btns)) = 0 THEN SubSeq(btns, 1, Min(1, Len(btns))) ELSE EasyOf(btns)

\* easy_btn.click() succeeds only on a single visible element
Clickable(btns) == Len(ClickTargets(btns)) = 1 /\ ClickTargets(btns)[1].vis

\* what lines 186-196 do on a page with these buttons
HostVerdict(btns) ==
  IF ~HasEasyApply(btns) THEN "skip"
  ELSE IF Clickable(btns) THEN "click"
  ELSE "click_fails"
HostVerdicts == {HostVerdict(h) : h \in Hosts}

FirstIndex(btns, S) == CHOOSE n \in S : \A m \in S : n <= m

\* the position of the button on which has_easy_apply returned True (0: on none)
MatchIndex(btns) ==
  LET easy == {n \in DOMAIN btns : btns[n].kind = "easy"}
      fall == {n \in 1..Min(FallbackLimit, Len(btns)) : btns[n].kind \in {"easy", "apply"}}
  IN  IF easy # {} /\ btns[FirstIndex(btns, easy)].vis THEN FirstIndex(btns, easy)
      ELSE IF fall # {} THEN FirstIndex(btns, fall)
      ELSE 0

\* the position of the button easy_btn.click() acts on (0: the click raises)
ClickIndex(btns) ==
  LET easy == {n \in DOMAIN btns : btns[n].kind = "easy"}
  IN  IF ~Clickable(btns) THEN 0
      ELSE IF easy = {} THEN 1
      ELSE FirstIndex(btns, easy)

\* what the process observes of a page: which probe it was and what it saw
NoObs == [probe |-> "none", matched |-> 0, clicked |-> 0, target |-> "none",
          submit |-> FALSE, next |-> FALSE]

\* lines 186-196 on a page with these buttons: the verdict and the buttons involved
HostObs(btns) ==
  [NoObs EXCEPT !.probe = "host",
                !.matched = MatchIndex(btns),
                !.clicked = IF HostVerdict(btns) = "click" THEN ClickIndex(btns) ELSE 0,
                !.target = IF HostVerdict(btns) = "click" THEN btns[ClickIndex(btns)].kind
                           ELSE "none"]
HostObservations == {<<HostVerdict(h), HostObs(h)>> : h \in Hosts}

\* what the step loop sees of the dialog: is Submit visible, is a next-step button visible
Snapshots == [submit : BOOLEAN, next : BOOLEAN]

\* variant: the next-step button is looked for first
StepViewNextFirst(snap) == IF snap.next THEN "next" ELSE IF snap.submit THEN "submit" ELSE "none"

\* lines 212-223: what one iteration does on a snapshot
StepView(snap) == IF snap.submit THEN "submit" ELSE IF snap.next THEN "next" ELSE "none"

\* ------------------------------------------------------------------ state
VARIABLES
  listing,        \* remote: page number -> anchors' hrefs
  label,          \* remote: aria-label of page 1's pagination section
  file,           \* content of seen_links.txt
  run,            \* number of the current invocation of main()
  pc,             \* position of the process
  total_pages, p, jobs,                  \* scrape_job_listings locals
  links, seen_links, new_links, i, submitted, applied,   \* main locals
  session,        \* browser: "none", "open", "closed"
  k,              \* step-loop iteration
  outcome,        \* outcome of the current attempt ("none" while running)
  acts,           \* page actions performed by the current attempt
  attempted,      \* links easy_apply_on_job was invoked on in this run
  appended,       \* links append_seen_link wrote in this run
  tracking,       \* whether the history across runs is recorded (fixed from the start)
  fetchFail,      \* history: some listing fetch of this run failed
  fetched,        \* pages whose fetch in the page loop succeeded in this run
  prevClean,      \* history: the previous run returned normally with every fetch successful
  startedBefore,  \* history: links whose apply attempt started in an earlier run
  watch,          \* whether the observations of the pages are recorded (fixed from the start)
  obs             \* history: what the last probe of the login or posting page observed

remote   == <<listing, label>>
scrapeV  == <<total_pages, p, jobs, fetchFail, fetched>>
mainV    == <<links, seen_links, new_links, i, submitted, session>>
applyV   == <<applied, k, outcome, acts, obs>>
historyV == <<attempted, appended>>
crossV   == <<run, tracking, prevClean, startedBefore, watch>>
vars == <<remote, file, pc, scrapeV, mainV, applyV, historyV, crossV>>

Outcomes == {"Submitted", "Skipped", "Failed"}
Halted == {"done", "aborted", "killed"}

\* the process image at the start of main()
Fresh ==
  /\ pc = "fetch_first"
  /\ total_pages = 0 /\ p = 0 /\ jobs = <<>> /\ fetchFail = FALSE /\ fetched = {}
  /\ links = <<>> /\ seen_links = {} /\ new_links = <<>> /\ i = 0 /\ submitted = 0
  /\ session = "none"
  /\ applied = FALSE /\ k = 0 /\ outcome = "none" /\ acts = <<>> /\ obs = NoObs
  /\ attempted = <<>> /\ appended = <<>>

\* the first run of main() on a site and without a ledger file
Start(track, look) ==
  /\ file = <<>>
  /\ run = 1 /\ tracking = track /\ prevClean = FALSE /\ startedBefore = {}
  /\ watch = look
  /\ Fresh

Boot(track, look) ==
  /\ listing \in Listings
  /\ label \in Labels
  /\ Start(track, look)

Init == Boot(FALSE, FALSE)
\* the same, with the history across runs recorded
HistoryInit == Boot(TRUE, FALSE)
\* the same, with the observations of the pages recorded
WatchInit == Boot(FALSE, TRUE)
\* the start of scrape_job_listings on any listing and any page-count label
ScrapeInit ==
  /\ listing \in ScrapeListings
  /\ label \in ScrapeLabels
  /\ Start(FALSE, FALSE)

\* ------------------------------------------------- scrape_job_listings
\* lines 89-97: the page-count fetch; any failure leaves first_page = ""
FetchFirst ==
  /\ pc = "fetch_first"
  /\ \E ok \in BOOLEAN :
       /\ total_pages' = get_total_pages(IF ok THEN label ELSE <<>>)
       /\ fetchFail' = (tracking /\ ~ok)
  /\ p' = 1 /\ pc' = "fetch_page"
  /\ UNCHANGED <<remote, file, jobs, fetched, mainV, applyV, historyV, crossV>>

\* variant: a failed fetch in the page loop is not handled
FetchPageRaising ==
  /\ pc = "fetch_page"
  /\ IF p > total_pages
     THEN /\ pc' = "dedupe"
          /\ UNCHANGED <<p, jobs, fetchFail, fetched>>
     ELSE \E res \in {"ok", "status", "error"} :
            IF res = "ok"
            THEN /\ jobs' = jobs \o PageJobs(listing[p])
                 /\ fetched' = fetched \cup {p}
                 /\ pc' = "sleep"
                 /\ UNCHANGED <<p, fetchFail>>
            ELSE /\ pc' = "aborted"
                 /\ UNCHANGED <<p, jobs, fetchFail, fetched>>
  /\ UNCHANGED <<remote, file, total_pages, mainV, applyV, historyV, crossV>>

\* lines 99-121: one iteration of the page loop, up to the pause
FetchPage ==
  /\ pc = "fetch_page"
  /\ IF p > total_pages
     THEN /\ pc' = "dedupe"
          /\ UNCHANGED <<p, jobs, fetchFail, fetched>>
     ELSE \E res \in {"ok", "status", "error"} :
            IF res = "ok"
            THEN /\ jobs' = jobs \o PageJobs(listing[p])
                 /\ fetched' = fetched \cup {p}
                 /\ pc' = "sleep"
                 /\ UNCHANGED <<p, fetchFail>>
            ELSE /\ fetchFail' = tracking
                 /\ p' = p + 1          \* continue
                 /\ UNCHANGED <<pc, jobs, fetched>>
  /\ UNCHANGED <<remote, file, total_pages, mainV, applyV, historyV, crossV>>

\* line 124: the polite pause
PoliteSleep ==
  /\ pc = "sleep"
  /\ p' = p + 1 /\ pc' = "fetch_page"
  /\ UNCHANGED <<remote, file, total_pages, jobs, fetchFail, fetched, mainV, applyV, historyV, crossV>>

\* lines 126-135 and 239-240
DedupeJobs ==
  /\ pc = "dedupe"
  /\ links' = Dedupe(jobs)
  /\ jobs' = <<>> /\ p' = 0            \* the function's locals end with it
  /\ pc' = "load"
  /\ UNCHANGED <<remote, file, total_pages, fetchFail, fetched, seen_links, new_links, i,
                 submitted, session, applyV, historyV, crossV>>

\* ---------------------------------------------------------------- main
\* line 242
LoadSeen ==
  /\ pc = "load"
  /\ seen_links' = load_seen_links(file)
  /\ pc' = "select"
  /\ UNCHANGED <<remote, file, scrapeV, links, new_links, i, submitted, session,
                 applyV, historyV, crossV>>

\* variant: the session is started whatever the number of candidates
SelectCandidatesNoExit ==
  /\ pc = "select"
  /\ new_links' = SelectNew(links, seen_links)
  /\ pc' = "launch"
  /\ total_pages' = 0 /\ fetched' = {}
  /\ UNCHANGED <<remote, file, p, jobs, fetchFail, links, seen_links, i, submitted, session,
                 applyV, historyV, crossV>>

\* lines 243-248: the candidates; an empty list returns before any session
SelectCandidates ==
  /\ pc = "select"
  /\ new_links' = SelectNew(links, seen_links)
  /\ pc' = IF new_links' = <<>> THEN "done" ELSE "launch"
  /\ total_pages' = 0 /\ fetched' = {}  \* the scrape's record is not needed any more
  /\ UNCHANGED <<remote, file, p, jobs, fetchFail, links, seen_links, i, submitted, session,
                 applyV, historyV, crossV>>

\* lines 250-252
Launch ==
  /\ pc = "launch"
  /\ session' = "open"
  /\ pc' = "login"
  /\ UNCHANGED <<remote, file, scrapeV, links, seen_links, new_links, i, submitted,
                 applyV, historyV, crossV>>

\* what is recorded of an observation
Observed(o) == IF watch THEN o ELSE NoObs

\* lines 254-256 when login() returns
LoginReturns ==
  /\ pc' = "next_job" /\ i' = 1 /\ submitted' = 0
  /\ UNCHANGED session

\* variant: the exception of login() is logged and the loop is entered
LoginSwallowed == LoginReturns

\* an exception of login() has no handler: it leaves main through the with block
LoginRaises ==
  /\ pc' = "aborted" /\ session' = "closed"
  /\ UNCHANGED <<i, submitted>>

\* lines 254-256: login() either returns or raises
Login ==
  /\ pc = "login"
  /\ \E ok \in BOOLEAN :
       /\ IF ok THEN LoginReturns ELSE LoginRaises
       /\ obs' = Observed([NoObs EXCEPT !.probe = IF ok THEN "login_ok" ELSE "login_raised"])
  /\ UNCHANGED <<remote, file, scrapeV, links, seen_links, new_links,
                 applied, k, outcome, acts, historyV, crossV>>

\* lines 257-259 and 270-272: the loop head; calls easy_apply_on_job or leaves the loop
NextJob ==
  /\ pc = "next_job"
  /\ IF i <= Len(new_links)
     THEN /\ pc' = "goto"
          /\ attempted' = Append(attempted, new_links[i])
          /\ applied' = FALSE /\ k' = 0 /\ outcome' = "none" /\ acts' = <<>>
          /\ obs' = NoObs
          /\ UNCHANGED session
     ELSE /\ pc' = "done"
          /\ session' = "closed"
          /\ UNCHANGED <<attempted, applyV>>
  /\ UNCHANGED <<remote, file, scrapeV, links, seen_links, new_links, i, submitted,
                 appended, crossV>>

\* variant: the link is recorded only when the application was submitted
AppendSeenIfApplied ==
  /\ pc = "append"
  /\ file' = IF applied THEN append_seen_link(file, new_links[i]) ELSE file
  /\ appended' = IF applied THEN Append(appended, new_links[i]) ELSE appended
  /\ pc' = "add"
  /\ k' = 0 /\ acts' = <<>>            \* the attempt's frame is gone
  /\ UNCHANGED <<remote, scrapeV, mainV, applied, outcome, obs, attempted, crossV>>

\* variant: the loop index is applied to the unfiltered list of links
AppendSeenFromLinks ==
  /\ pc = "append"
  /\ file' = append_seen_link(file, links[i])
  /\ appended' = Append(appended, links[i])
  /\ pc' = "add"
  /\ k' = 0 /\ acts' = <<>>            \* the attempt's frame is gone
  /\ UNCHANGED <<remote, scrapeV, mainV, applied, outcome, obs, attempted, crossV>>

\* line 262
AppendSeen ==
  /\ pc = "append"
  /\ file' = append_seen_link(file, new_links[i])
  /\ appended' = Append(appended, new_links[i])
  /\ pc' = "add"
  /\ k' = 0 /\ acts' = <<>>            \* the attempt's frame is gone
  /\ UNCHANGED <<remote, scrapeV, mainV, applied, outcome, obs, attempted, crossV>>

\* variant: the in-memory set is not updated
AddSeenOmitted ==
  /\ pc = "add"
  /\ pc' = "count"
  /\ UNCHANGED <<remote, file, scrapeV, mainV, applyV, historyV, crossV>>

\* line 263
AddSeen ==
  /\ pc = "add"
  /\ seen_links' = seen_links \cup {new_links[i]}
  /\ pc' = "count"
  /\ UNCHANGED <<remote, file, scrapeV, links, new_links, i, submitted, session,
                 applyV, historyV, crossV>>

\* variant: the loop is left after the first attempt that was not submitted
CountAndStopOnFailure ==
  /\ pc = "count"
  /\ submitted' = IF applied THEN submitted + 1 ELSE submitted
  /\ i' = IF applied THEN i + 1 ELSE Len(new_links) + 1
  /\ outcome' = "none" /\ obs' = NoObs
  /\ pc' = "next_job"
  /\ UNCHANGED <<remote, file, scrapeV, links, seen_links, new_links, session,
                 applied, k, acts, historyV, crossV>>

\* lines 265-268: the tally, the pause and the step to the next candidate
CountAndPause ==
  /\ pc = "count"
  /\ submitted' = IF applied THEN submitted + 1 ELSE submitted
  /\ i' = i + 1
  /\ outcome' = "none" /\ obs' = NoObs
  /\ pc' = "next_job"
  /\ UNCHANGED <<remote, file, scrapeV, links, seen_links, new_links, session,
                 applied, k, acts, historyV, crossV>>

\* --------------------------------------------------- easy_apply_on_job
applyFrame == <<remote, file, scrapeV, mainV, historyV, crossV>>

\* a return statement of easy_apply_on_job (lines 188, 217, 226)
Return(out) ==
  /\ outcome' = out
  /\ applied' = (out = "Submitted")
  /\ pc' = "append"

\* variant: the exception leaves easy_apply_on_job and main
Propagated ==
  /\ outcome' = "none"
  /\ applied' = FALSE
  /\ pc' = "aborted"

\* lines 228-233: both handlers return False to main
Caught == Return("Failed")

\* variant: a posting without the apply control is treated as an error
NotCapableRaises == Caught

\* lines 186-188: has_easy_apply returned False
NotCapable == Return("Skipped")

Advance(next, act) ==
  /\ pc' = next
  /\ acts' = IF act = "" THEN acts ELSE Append(acts, act)
  /\ UNCHANGED <<applied, outcome>>

\* a page operation that either completes or raises
PageStep(here, next, act) ==
  /\ pc = here
  /\ \/ Advance(next, act)
     \/ Caught /\ UNCHANGED acts
  /\ obs' = NoObs
  /\ UNCHANGED <<k, applyFrame>>

\* line 185
Goto == PageStep("goto", "wait_host", "goto")

\* lines 157-160: only the wait's timeout is handled inside has_easy_apply
WaitHost ==
  /\ pc = "wait_host"
  /\ \E res \in {"present", "timeout", "error"} :
       /\ CASE res = "present" -> Advance("detect", "")
            [] res = "timeout" -> NotCapable /\ UNCHANGED acts
            [] res = "error"   -> Caught /\ UNCHANGED acts
       /\ obs' = Observed([NoObs EXCEPT !.probe = IF res = "timeout" THEN "host_timeout"
                                                  ELSE "none"])
  /\ UNCHANGED <<k, applyFrame>>

\* lines 163-179 and 186-196: detection on the buttons the page shows in its
\* host element and, when it is positive, the click on the apply control
DetectAndClick ==
  /\ pc = "detect"
  /\ \/ \E h \in HostObservations :
          /\ CASE h[1] = "skip"        -> NotCapable /\ UNCHANGED acts
               [] h[1] = "click"       ->
                    /\ pc' = "replace"
                    /\ acts' = acts \o <<"detected", "click_apply">>
                    /\ UNCHANGED <<applied, outcome>>
               [] h[1] = "click_fails" -> Caught /\ UNCHANGED acts
          /\ obs' = Observed(h[2])
     \/ Caught /\ UNCHANGED acts /\ obs' = NoObs
  /\ UNCHANGED <<k, applyFrame>>

\* lines 199-200: wait for the resume-removal control and click it
ReplaceResume == PageStep("replace", "inject", "click_replace")
\* lines 201-203: wait for the file input and set the resume on it
SetInputFiles == PageStep("inject", "upload", "set_files")
\* variant: the dialog's upload is left out
UploadSkipped == PageStep("upload", "loop", "")

\* lines 206-208: wait for the upload control and click it
UploadResume == PageStep("upload", "loop", "click_upload")

\* lines 211-226: one iteration of the step loop, or its exhaustion
StepLoop ==
  /\ pc = "loop"
  /\ IF k >= StepLimit
     THEN Return("Failed") /\ UNCHANGED <<acts, k, obs>>
     ELSE \/ \E snap \in Snapshots :
               /\ CASE StepView(snap) = "submit" ->           \* lines 213-217
                         Return("Submitted") /\ acts' = Append(acts, "click_submit")
                           /\ UNCHANGED k
                    [] StepView(snap) = "next" ->             \* lines 219-221
                         Advance("loop", "click_next") /\ k' = k + 1
                    [] StepView(snap) = "none" ->             \* lines 222-226
                         Return("Failed") /\ UNCHANGED <<acts, k>>
               /\ obs' = Observed([NoObs EXCEPT !.probe = "steps",
                                                !.submit = snap.submit, !.next = snap.next])
          \* is_visible or click raised
          \/ Caught /\ UNCHANGED <<acts, k>> /\ obs' = NoObs
  /\ UNCHANGED applyFrame

\* ------------------------------------------------ the process as a whole
\* the image of a process that is not running main's body
Reset(status) ==
  /\ pc' = status
  /\ total_pages' = 0 /\ p' = 0 /\ jobs' = <<>> /\ fetchFail' = FALSE /\ fetched' = {}
  /\ links' = <<>> /\ seen_links' = {} /\ new_links' = <<>> /\ i' = 0 /\ submitted' = 0
  /\ session' = "none"
  /\ applied' = FALSE /\ k' = 0 /\ outcome' = "none" /\ acts' = <<>> /\ obs' = NoObs
  /\ attempted' = <<>> /\ appended' = <<>>

\* external termination of the process: only the file survives
Crash ==
  /\ pc \notin Halted
  /\ Reset("killed")
  /\ startedBefore' = IF tracking THEN startedBefore \cup Range(attempted) ELSE startedBefore
  /\ UNCHANGED <<remote, file, run, tracking, prevClean, watch>>

\* lines 275-276: the operator starts the script again
Restart ==
  /\ pc \in Halted
  /\ run < MaxRuns
  /\ run' = run + 1
  /\ prevClean' = (tracking /\ pc = "done" /\ ~fetchFail)
  /\ startedBefore' = IF tracking THEN startedBefore \cup Range(attempted) ELSE startedBefore
  /\ Reset("fetch_first")
  /\ UNCHANGED <<remote, file, tracking, watch>>

Scrape == FetchFirst \/ FetchPage \/ PoliteSleep \/ DedupeJobs
Main == LoadSeen \/ SelectCandidates \/ Launch \/ Login \/ NextJob
          \/ AppendSeen \/ AddSeen \/ CountAndPause
Apply == Goto \/ WaitHost \/ DetectAndClick \/ ReplaceResume \/ SetInputFiles
           \/ UploadResume \/ StepLoop
Program == Scrape \/ Main \/ Apply

Next == Program \/ Crash \/ Restart

Spec == Init /\ [][Next]_vars

\* the same program with the history across runs recorded
HistorySpec == HistoryInit /\ [][Next]_vars

\* the same program with the observations of the pages recorded
WatchSpec == WatchInit /\ [][Next]_vars

\* scrape_job_listings taken alone, from its call at line 239 to its return;
\* every fetch has a timeout, so the function always takes its next step
ScrapeSpec == ScrapeInit /\ [][Scrape]_vars /\ WF_vars(Scrape)

\* the runs against a site whose page 1 announces all its pages
LiveInit == Init /\ label = FullLabel

\* one run of main(), which the operator may kill
LiveNext == Program \/ Crash

\* every wait and every fetch is bounded, so a live process always takes its next step
LiveSpec == LiveInit /\ [][LiveNext]_vars /\ WF_vars(Program)

\* ------------------------------------------------------------ vocabulary
ApplyPcs == {"goto", "wait_host", "detect", "replace", "inject", "upload", "loop"}
BeforeLoad == {"fetch_first", "fetch_page", "sleep", "dedupe", "load"}
\* main holds a loaded seen_links
Loaded == pc \notin BeforeLoad /\ pc # "killed"

IsPrefix(s, t) == Len(s) <= Len(t) /\ SubSeq(t, 1, Len(s)) = s
NoDup(s) == \A a, b \in DOMAIN s : a # b => s[a] # s[b]

\* the links written in the ledger file, one per line
DurableLinks == {SubSeq(l, 1, Len(l) - 1) : l \in Range(FileLines(file, <<>>))}

RECURSIVE Written(_)
Written(ls) == IF ls = <<>> THEN <<>> ELSE Head(ls) \o <<"\n">> \o Written(Tail(ls))
\* the ledger file as main found it at line 242
FileAtLoad == SubSeq(file, 1, Len(file) - Len(Written(appended)))

\* ------------------------------------------------------------------- C1
\* C1: no posting whose apply attempt started in an earlier run (finished,
\* or cut short by a crash) is ever selected as a candidate again.
C1_NeverReselected == Range(new_links) \cap startedBefore = {}

\* ------------------------------------------------------------------- C2
\* C2: when the previous run returned normally and both runs fetched every
\* page of the unchanged listing, this run has no candidate, starts no
\* attempt and opens no session.
C2_SecondRunIdle ==
  (run > 1 /\ prevClean /\ ~fetchFail)
    => (new_links = <<>> /\ attempted = <<>> /\ session = "none")

\* ------------------------------------------------------------------- C3
\* C3: whenever easy_apply_on_job is about to be, or has been, invoked on a
\* candidate, every candidate attempted before it is in the ledger file and
\* in seen_links, whatever its outcome was.
C3_RecordedBeforeNext ==
  \A j \in 1..Len(attempted) :
    (j < Len(attempted) \/ pc = "next_job")
      => (attempted[j] \in DurableLinks /\ attempted[j] \in seen_links)

C3_Witness ==
  /\ pc = "goto" /\ Len(attempted) = 2 /\ submitted = 0
  /\ attempted[1] \in DurableLinks

\* ------------------------------------------------------------------- C4
\* C4 as stated: at every point of a run after the load, every link of the
\* ledger file is in seen_links.
C4_SupersetAlways == Loaded => DurableLinks \subseteq seen_links

\* C4 amended: after the load, seen_links holds every link read from the
\* file and every link appended in this run, except that between the append
\* (line 262) and the add (line 263) the link just appended is missing; and
\* seen_links never loses a link during a run while the file only grows.
C4_Recorded ==
  Loaded => (load_seen_links(FileAtLoad) \cup Range(appended))
               \subseteq (seen_links \cup (IF pc = "add" THEN {new_links[i]} ELSE {}))
C4_Grows ==
  /\ IsPrefix(file, file')
  /\ pc' \notin {"killed", "fetch_first"} => seen_links \subseteq seen_links'
C4_SupersetOutsideWindow == []C4_Recorded /\ [][C4_Grows]_vars

C4_Witness ==
  /\ pc = "add" /\ seen_links # {}
  /\ new_links[i] \in DurableLinks /\ new_links[i] \notin seen_links

\* ------------------------------------------------------------------- C5
\* C5: an attempt has no outcome while it runs, returns to main with exactly
\* one of Submitted, Skipped, Failed (True only for Submitted), and every
\* attempt that is not killed from outside does return.
InAttempt == pc \in ApplyPcs
C5_OneOutcome ==
  /\ InAttempt => outcome = "none"
  /\ pc = "append" => (outcome \in Outcomes /\ applied = (outcome = "Submitted"))
C5_OutcomeClosure == []C5_OneOutcome /\ (InAttempt ~> (pc = "append" \/ pc = "killed"))

C5_Witness == pc = "append" /\ outcome = "Failed" /\ k = StepLimit

\* ------------------------------------------------------------------- C6
\* C6: after a successful login the attempts and the ledger entries follow
\* the candidate list in order, and unless the process is killed the run
\* ends with every candidate attempted and recorded; a failing apply step
\* never ends the run.
LoggedIn == session = "open" /\ pc # "login"
C6_InOrder ==
  /\ LoggedIn => (IsPrefix(attempted, new_links) /\ IsPrefix(appended, attempted))
  /\ pc = "aborted" => attempted = <<>>
RunComplete == pc = "done" /\ attempted = new_links /\ appended = new_links
C6_AllCandidatesProcessed == []C6_InOrder /\ (LoggedIn ~> (RunComplete \/ pc = "killed"))

C6_Witness ==
  /\ pc = "count" /\ Len(new_links) = 2
  /\ attempted = new_links /\ appended = new_links
  /\ submitted = 0 /\ outcome = "Failed"

\* ------------------------------------------------------------------- C7
\* C7: within a run no link is attempted twice and no link is appended
\* twice, and the ledger gets one entry for each finished attempt.
C7_OncePerLink ==
  /\ NoDup(attempted)
  /\ NoDup(appended)
  /\ IsPrefix(appended, attempted)
  /\ Len(attempted) - Len(appended) \in {0, 1}
  /\ pc \in {"add", "count", "next_job", "done"} => appended = attempted

C7_Witness ==
  /\ pc = "done" /\ listing[1] = <<HrefRelA, HrefAbsA>>
  /\ Len(attempted) = 1 /\ appended = attempted

\* ------------------------------------------------------------------- C8
\* C8: the candidates are the links of the fetched pages 1..N, each at the
\* position of its first occurrence, without the links of the loaded ledger.
RECURSIVE Scraped(_)
Scraped(n) ==
  IF n = 0 THEN <<>>
  ELSE Scraped(n - 1) \o (IF n \in fetched THEN PageJobs(listing[n]) ELSE <<>>)
FirstAt(s, x) == CHOOSE n \in DOMAIN s : s[n] = x /\ \A m \in 1..(n - 1) : s[m] # x
C8_Selected ==
  (pc = "select" /\ pc' \in {"launch", "done"})
    => LET all == Scraped(total_pages)
       IN  /\ Range(new_links') = Range(all) \ load_seen_links(file)
           /\ NoDup(new_links')
           /\ \A a, b \in DOMAIN new_links' :
                a < b => FirstAt(all, new_links'[a]) < FirstAt(all, new_links'[b])
C8_Reference == [][C8_Selected]_vars

C8_Witness ==
  /\ pc = "launch" /\ seen_links # {}
  /\ Len(new_links) >= 1 /\ Len(links) > Len(new_links)

\* ------------------------------------------------------------------- C9
\* C9: no step makes the ledger file hold fewer entries, and every link
\* appended during a run is one of that run's candidates.
LedgerSize(f) == Cardinality({n \in DOMAIN f : f[n] = "\n"})
C9_FromCandidates == Range(appended) \subseteq Range(new_links)
C9_LedgerMonotone ==
  []C9_FromCandidates /\ [][LedgerSize(file') >= LedgerSize(file)]_vars

C9_Witness ==
  /\ run > 1 /\ pc = "add"
  /\ LedgerSize(file) >= 2 /\ LedgerSize(FileAtLoad) >= 1

\* ------------------------------------------------------------------ C10
\* C10: while the process runs, the only attempted link of this run that can
\* be absent from the ledger file is the one whose attempt is in flight (or
\* has just returned and is about to be appended).
Unrecorded == {j \in 1..Len(attempted) : attempted[j] \notin DurableLinks}
C10_OnlyInFlight ==
  pc \notin Halted
    => /\ Unrecorded \subseteq {Len(attempted)}
       /\ Unrecorded # {} => (InAttempt \/ pc = "append")

C10_Witness ==
  /\ InAttempt /\ Len(attempted) = 2
  /\ Unrecorded = {2}

\* ------------------------------------------------------------------ C11
\* C11: when the apply-control region did not appear within the timeout, or
\* detection matched no button on the primary and on the fallback path, the
\* attempt returns Skipped, it has performed nothing on the posting page
\* but the navigation, and the next step of main appends the posting's link.
NoCapability ==
  \/ obs.probe = "host_timeout"
  \/ obs.probe = "host" /\ obs.matched = 0
PageActs == {"click_apply", "click_replace", "set_files", "click_upload",
             "click_next", "click_submit"}
C11_Skipped ==
  NoCapability
    => /\ pc \in {"append", "add", "count"}
       /\ outcome = "Skipped" /\ ~applied
       /\ obs.clicked = 0
       /\ pc = "append" => Range(acts) \cap PageActs = {}
       /\ pc \in {"add", "count"}
            => (appended[Len(appended)] = new_links[i] /\ new_links[i] \in DurableLinks)
C11_Recorded ==
  (NoCapability /\ pc = "append" /\ pc' # "killed")
    => (pc' = "add" /\ file' = file \o new_links[i] \o <<"\n">>)
C11_SkippedAndRecorded == []C11_Skipped /\ [][C11_Recorded]_vars

C11_Witness ==
  /\ pc = "add" /\ obs.probe = "host" /\ obs.matched = 0
  /\ outcome = "Skipped" /\ new_links[i] \in DurableLinks

\* ------------------------------------------------------------------ C12
\* C12: when login() fails, the run is over: easy_apply_on_job has been
\* invoked on no candidate, nothing has been appended and the ledger file is
\* as it was loaded, and the aborted process takes no further step of main.
LoginFailed == obs.probe = "login_raised"
C12_NoAttempt ==
  LoginFailed
    => /\ pc = "aborted"
       /\ attempted = <<>> /\ appended = <<>>
       /\ load_seen_links(file) = seen_links
       /\ submitted = 0 /\ i = 0
C12_Stopped == pc = "aborted" => (pc' = "fetch_first" /\ run' = run + 1 /\ file' = file)
PastSelect == pc \in ({"launch", "login", "next_job", "add", "count", "append", "done", "aborted"}
                        \cup ApplyPcs)
C13_NoSession ==
  (PastSelect /\ new_links = <<>>)
    => /\ pc = "done"
       /\ session = "none"
       /\ attempted = <<>> /\ appended = <<>>
       /\ load_seen_links(file) = seen_links
C13_Returns ==
  /\ (pc = "select" /\ SelectNew(links, seen_links) = <<>> /\ pc' # "killed")
       => (pc' = "done" /\ session' = "none" /\ file' = file)
  /\ (pc = "done" /\ new_links = <<>>) => file' = file
C13_EarlyExit == []C13_NoSession /\ [][C13_Returns]_vars

C13_Witness ==
  /\ pc = "done" /\ new_links = <<>> /\ session = "none"
  /\ links # <<>> /\ Range(links) \subseteq seen_links

\* ------------------------------------------------------------------ C14
\* C14: whatever fetches fail and whatever the page-count label is,
\* scrape_job_listings returns; a missing or malformed label (or a failed
\* first fetch) gives 1 page; the result holds, without repeats, exactly the
\* postings of the pages among 1..N whose fetch succeeded.
Numerals == DOMAIN IntOf
WellFormed(lbl) ==
  /\ Len(lbl) = 4 /\ lbl[1] = "Page" /\ lbl[3] = "of"
  /\ lbl[2] \in Numerals /\ lbl[4] \in Numerals
Returned == pc = "load"
C14_Result ==
  /\ pc # "aborted"
  /\ pc \in {"fetch_page", "sleep", "dedupe", "load"}
       => /\ ~WellFormed(label) => total_pages = 1
          /\ WellFormed(label) => total_pages \in {1, IntOf[label[4]]}
          /\ fetched \subseteq 1..total_pages
  /\ Returned
       => /\ Range(links) = UNION {Range(PageJobs(listing[n])) : n \in fetched}
          /\ NoDup(links)
C14_ScrapeCompletes == []C14_Result /\ <>Returned

C14_Witness ==
  /\ Returned /\ label = FullLabel /\ total_pages = MaxPages
  /\ fetched = {MaxPages} /\ links # <<>>

\* ------------------------------------------------------------------ C15
\* C15: the step loop makes at most 6 iterations. An iteration that sees
\* Submit clicks it and the attempt ends Submitted; one that sees no Submit
\* but a next-step button clicks that and the loop goes on; one that sees
\* neither ends the attempt Failed. After 6 iterations without Submit the
\* attempt ends Failed with 6 next-step clicks, and main appends the link.
\* (An iteration in which a page operation raises is C5's Failed.)
Count(s, x) == Cardinality({n \in DOMAIN s : s[n] = x})
Last(s) == s[Len(s)]
Iterated == obs.probe = "steps"
AfterAttempt == {"append", "add", "count"}
C15_Iteration ==
  /\ k \in 0..6
  /\ pc \in {"loop", "append"} => Count(acts, "click_next") = k
  /\ (Iterated /\ obs.submit)
       => /\ pc \in AfterAttempt /\ outcome = "Submitted" /\ applied
          /\ pc = "append" => (Last(acts) = "click_submit" /\ Count(acts, "click_submit") = 1)
  /\ (Iterated /\ ~obs.submit /\ obs.next)
       => /\ pc = "loop" => (k >= 1 /\ Last(acts) = "click_next" /\ outcome = "none")
          /\ pc # "loop" => (pc \in AfterAttempt /\ outcome = "Failed")
          /\ pc = "append" => (k = 6 /\ Count(acts, "click_submit") = 0)
  /\ (Iterated /\ ~obs.submit /\ ~obs.next)
       => /\ pc \in AfterAttempt /\ outcome = "Failed"
          /\ pc = "append" => Count(acts, "click_submit") = 0
C15_Exhausted ==
  /\ (pc = "loop" /\ k = 6 /\ pc' # "killed")
       => (pc' = "append" /\ outcome' = "Failed" /\ acts' = acts)
  /\ (pc = "append" /\ k = 6 /\ pc' # "killed")
       => (pc' = "add" /\ file' = file \o new_links[i] \o <<"\n">>)
C15_StepLoop == []C15_Iteration /\ [][C15_Exhausted]_vars

C15_Witness ==
  /\ pc = "append" /\ k = 6 /\ outcome = "Failed"
  /\ Iterated /\ Count(acts, "click_next") = 6

\* ------------------------------------------------------------------ C16
\* C16: whenever detection succeeded and the apply control was clicked, the
\* button clicked is the button detection matched, and its text is "Easy
\* apply" or contains "apply"; a button detection did not match is never
\* clicked.
C16_ClicksDetected ==
  (obs.probe = "host" /\ obs.clicked # 0)
    => (obs.clicked = obs.matched /\ obs.target \in {"easy", "apply"})

\* ------------------------------------------------------------------ C17
\* C17: in an attempt Submit is clicked only after the navigation, a
\* positive capability check, the apply click, the resume-removal click,
\* the file injection and the upload click, which happened once each and
\* in this order; Submit is clicked at most once and it is the attempt's
\* last action: the attempt returns with it.
Pos(x) == CHOOSE n \in DOMAIN acts : acts[n] = x
Before == <<"goto", "detected", "click_apply", "click_replace", "set_files", "click_upload",
            "click_submit">>
SubmitClicked == Count(acts, "click_submit") > 0
C17_Ordered ==
  SubmitClicked
    => /\ \A n \in DOMAIN Before : Count(acts, Before[n]) = 1
       /\ \A n \in 1..(Len(Before) - 1) : Pos(Before[n]) < Pos(Before[n + 1])
       /\ Last(acts) = "click_submit"
       /\ pc = "append" /\ outcome = "Submitted"
C17_Returns ==
  (Count(acts', "click_submit") > Count(acts, "click_submit"))
    => (pc = "loop" /\ pc' = "append" /\ acts' = Append(acts, "click_submit"))
C17_SubmitLast == []C17_Ordered /\ [][C17_Returns]_vars

C17_Witness ==
  /\ SubmitClicked /\ pc = "append"
  /\ Count(acts, "click_next") = 2

\* ------------------------------------------------------------------ C18
\* C18: a pacing delay lies between every two consecutive fetches of listing
\* pages: whenever the page loop is about to fetch, the process has slept
\* since its previous fetch, also when that fetch failed and when it was
\* the page-count fetch.
AboutToFetch == pc = "fetch_page" /\ p <= total_pages
\* the last listing request was the successful fetch of page p - 1, which is followed by the pause
SleptSinceLastFetch == p > 1 /\ (p - 1) \in fetched
C18_PacedFetches == AboutToFetch => SleptSinceLastFetch

\* ------------------------------------------------------------------ C19
\* C19: two anchors of the fetched pages whose hrefs resolve to the same
\* absolute URL (written path-relative, protocol-relative or absolute) give
\* exactly one posting after the de-duplication, and the link of every
\* posting denotes the absolute URL its href resolves to on the site origin.
\* URL resolution against the origin "O" = "https:" "//" "H"
Resolve(href) ==
  LET t == Strip(href)
  IN  IF Len(t) >= 3 /\ t[1] = "/" /\ t[2] = "/" /\ t[3] = "H"
      THEN Origin \o SubSeq(t, 4, Len(t))
      ELSE IF t # <<>> /\ t[1] = "/" THEN Origin \o t
      ELSE t
Anchors == UNION {{h \in Range(listing[n]) : h # <<>>} : n \in fetched}
PostingsOf(hrefs) == {n \in DOMAIN links : \E h \in hrefs : links[n] = Normalise(h)}
C19_OnePostingPerUrl ==
  Returned
    => /\ \A g, h \in Anchors :
            Resolve(g) = Resolve(h) => Cardinality(PostingsOf({g, h})) = 1
       /\ \A h \in Anchors :
            /\ Resolve(Normalise(h)) = Resolve(h)
            /\ Head(Resolve(Normalise(h))) = "O"

\* ------------------------------------------------------------------ C20
\* C20: every link append_seen_link has written is, as the same string, in
\* the set load_seen_links returns for the file, so that the selection on
\* that set drops the link; also for a link with a blank at its start or end.
C20_RoundTrip ==
  \A l \in Range(appended) :
    /\ l \in load_seen_links(file)
    /\ SelectNew(<<l>>, load_seen_links(file)) = <<>>
====
